---- MODULE Spec2Model ----
(***************************************************************************)
(* Model of P5_Quadcopter/task_AC.py: the Task environment wrapped around  *)
(* the quadcopter physics simulator.                                       *)
(*                                                                         *)
(* Numbers.  The program computes in float64.  Here every real quantity is *)
(* a fixed-point integer:                                                  *)
(*   - positions and distances in units of 1/PScale  (1.0 = 1000),         *)
(*   - angles, angular velocities and rewards in units of 1/Scale          *)
(*     (1.0 = 1000000),                                                    *)
(*   - rotor speeds and action components in units of 1,                   *)
(*   - simulator time in timesteps (dt).                                   *)
(* All intermediate values stay below 2^31.                                *)
(***************************************************************************)
EXTENDS Integers, Sequences, FiniteSets, TLC

VARIABLES
    pc,                   \* "new": before Task(...); "ready": constructed; "error": __init__ raised
    sim,                  \* self.sim, the PhysicsSim instance
    target_pos,           \* self.target_pos
    target_vel,           \* self.target_vel
    initvec2tgt,          \* self.initvec2tgt
    suminitdist,          \* self.suminitdist
    initdist2tgt,         \* self.initdist2tgt
    distpunishment,       \* self.distpunishment (ratio, units of 1/PScale)
    highanglepunishment,  \* self.highanglepunishment
    ret                   \* the last call: its name, arguments, return value, and
                          \* the simulator calls it made

vars == <<pc, sim, target_pos, target_vel, initvec2tgt, suminitdist,
          initdist2tgt, distpunishment, highanglepunishment, ret>>

taskvars == <<pc, target_pos, target_vel, initvec2tgt, suminitdist, initdist2tgt>>

---------------------------------------------------------------------------
(* Units and program constants                                             *)

PScale == 1000
Scale == 1000000
Pi == 3141593
DistFloor == 5000
BigTime == 100000000
action_repeat == 3
\* lines 46-47
action_low == <<400, -1, -1, -1, -1>>
action_high == <<565, 1, 1, 1, 1>>
\* line 33: action_repeat * (sim.pose.size + sim.angular_v.size)
state_size == action_repeat * (6 + 3)

(* Bounds of the model *)
MaxTime == 3
NOutcomes == 2

None == <<>>
Zeros3 == <<0, 0, 0>>
DefaultTarget == <<0, 0, 10 * PScale>>

---------------------------------------------------------------------------
(* Arithmetic                                                              *)

Abs(x) == IF x < 0 THEN 0 - x ELSE x
Max(a, b) == IF a >= b THEN a ELSE b
Min(a, b) == IF a <= b THEN a ELSE b

RECURSIVE SqrtIter(_, _, _)
SqrtIter(n, lo, hi) ==
    IF lo >= hi THEN lo
    ELSE LET mid == (lo + hi + 1) \div 2
         IN IF mid * mid <= n THEN SqrtIter(n, mid, hi) ELSE SqrtIter(n, lo, mid - 1)

\* floor(sqrt(n)) for 0 <= n < 2^31
Sqrt(n) == SqrtIter(n, 0, 46340)

\* a*b/Scale for 0 <= a, b <= Scale, without leaving 32 bits
Mul(a, b) == ((a \div 1000) * b) \div 1000 + ((a % 1000) * b) \div Scale

\* a*Scale/b rounded down, for 0 <= a and 0 < b <= 2*Scale
DivS(a, b) ==
    LET q1 == a \div b
        r1 == a % b
        q2 == (r1 * 1000) \div b
        r2 == (r1 * 1000) % b
        q3 == (r2 * 1000) \div b
    IN q1 * Scale + q2 * 1000 + q3

RECURSIVE ExpHorner(_, _, _)
\* 1 - z/1*(1 - z/2*(... (1 - z/10)))   (Taylor series of e^-z, 0 <= z <= Scale)
ExpHorner(z, k, t) == IF k = 0 THEN t ELSE ExpHorner(z, k - 1, Scale - Mul(z, t) \div k)

RECURSIVE Square(_, _)
Square(t, n) == IF n = 0 THEN t ELSE Square(Mul(t, t), n - 1)

\* e^-x for x >= 0: (e^(-x/16))^16; below the resolution from x = 14 on
ExpNeg(x) == IF x >= 14 * Scale THEN 0 ELSE Square(ExpHorner(x \div 16, 10, Scale), 4)

\* np.tanh on float64.  The double nearest to tanh(y) is exactly -1.0 (1.0)
\* when 1 - |tanh y| < 2^-54, that is for |y| >= 19.0615475 (TanhSat); below
\* that the result is strictly inside (-1, 1) and is kept rounded toward zero,
\* never reaching +-Scale.
TanhSat == 19061548

Tanh(y) ==
    IF Abs(y) >= TanhSat THEN (IF y < 0 THEN 0 - Scale ELSE Scale)
    ELSE LET t == ExpNeg(Min(2 * Abs(y), 14 * Scale))
             m == Min(DivS(Scale - t, Scale + t), Scale - 1)
         IN IF y < 0 THEN 0 - m ELSE m

\* smoothabs(x) = sqrt(x^2 + 10e-16): differs from |x| by at most 3.2e-8, which
\* is below the resolution of either unit, so it is |x| on the grid.
smoothabs(x) == IF x < 0 THEN 0 - x ELSE x

\* np.abs
np_abs(x) == IF x < 0 THEN 0 - x ELSE x

Sub3(a, b) == <<a[1] - b[1], a[2] - b[2], a[3] - b[3]>>
Sum3(v) == v[1] + v[2] + v[3]

\* mag(v) = sqrt(v.v), v a position difference with |v[i]| <= 26.0
mag(v) == Sqrt(v[1] * v[1] + v[2] * v[2] + v[3] * v[3])

---------------------------------------------------------------------------
(* The physics simulator (physics_sim.PhysicsSim), an external collaborator: *)
(* it holds pose, v, angular_v and time, starts from and resets to its       *)
(* initial conditions, and each advance publishes a new pose, velocity and   *)
(* angular velocity and reports done.  What an advance computes is not       *)
(* modelled: its result is one of NOutcomes outcomes, chosen freely, with a  *)
(* freely chosen done flag.  Angles are kept wrapped in [0, 2*pi).           *)

SimDefaultPose == <<0, 0, 10 * PScale, 0, 0, 0>>

NoSim == [pose |-> None, v |-> None, angular_v |-> None, time |-> 0, done |-> FALSE,
          init_pose |-> None, init_velocities |-> None, init_angle_velocities |-> None]

PhysicsSim(init_pose, init_velocities, init_angle_velocities) ==
    LET p0 == IF init_pose = None THEN SimDefaultPose ELSE init_pose
        v0 == IF init_velocities = None THEN Zeros3 ELSE init_velocities
        a0 == IF init_angle_velocities = None THEN Zeros3 ELSE init_angle_velocities
    IN [pose |-> p0, v |-> v0, angular_v |-> a0, time |-> 0, done |-> FALSE,
        init_pose |-> p0, init_velocities |-> v0, init_angle_velocities |-> a0]

SimOutcomePose(k) ==
    <<k * PScale, 0, (10 - k) * PScale,
      ((k - 1) * 300000) % (2 * Pi), (k * 1700000) % (2 * Pi), 0>>

SimOutcomeV(k) == <<0, 0, k * 100>>

SimOutcomeAngularV(k) == <<k * 100000, 0, 0>>

\* sim.next_timestep(rotor_speeds) with outcome k; the value returned is d
next_timestep(s, rotor_speeds, k, d) ==
    [s EXCEPT !.pose = SimOutcomePose(k), !.v = SimOutcomeV(k),
              !.angular_v = SimOutcomeAngularV(k), !.time = @ + 1, !.done = d]

\* sim.reset()
sim_reset(s) ==
    [s EXCEPT !.pose = s.init_pose, !.v = s.init_velocities,
              !.angular_v = s.init_angle_velocities, !.time = 0, !.done = FALSE]

---------------------------------------------------------------------------
(* Task.calc_reward                                                        *)

WrapFull(a) == IF a > Pi THEN ((a + Pi) % (2 * Pi)) - Pi ELSE a

\* lines 82-85: one 2*pi correction of an angle above pi
Wrap(a) == IF a > Pi THEN a - 2 * Pi ELSE a

RewardNoTanh(hap) == 2 * Scale - hap

\* line 88: np.tanh([(2. - self.highanglepunishment)])
RewardOf(hap) == Tanh(2 * Scale - hap)

\* calc_reward(time, position, angles, velocities) with the fields of self it
\* reads; gives the value returned and the two fields it stores
calc_reward(tgt, sid, time, position, angles, velocities) ==
    LET rvec2tgt == Sub3(tgt, position)
        dp == (Sum3(<<smoothabs(rvec2tgt[1]), smoothabs(rvec2tgt[2]),
                      smoothabs(rvec2tgt[3])>>) * PScale) \div sid
        myphi == Wrap(angles[1])
        mytheta == Wrap(angles[2])
        hap == smoothabs(mytheta) + smoothabs(myphi)
    IN [reward |-> RewardOf(hap), distpunishment |-> dp, highanglepunishment |-> hap]

\* get_reward() evaluated on simulator state s
RewardAt(tgt, sid, s) ==
    calc_reward(tgt, sid, s.time, SubSeq(s.pose, 1, 3), SubSeq(s.pose, 4, 6), s.v)

---------------------------------------------------------------------------
(* The calls a driver makes                                                *)

InitPoses == {<<1 * PScale, 0, 2 * PScale, 200000, 0, 0>>}

Targets == {<<0, 0, 10 * PScale>>, <<1 * PScale, 0, 5 * PScale>>, <<4 * PScale, 4 * PScale, 2 * PScale>>}

Actions == {<<0, -5, -5, -5, -5>>, <<400, -1, 1, 0, 1>>, <<600, 1, -1, 1, 2>>}

NoRet == [op |-> "none", args |-> None, state |-> None, reward |-> 0, done |-> FALSE,
          log |-> <<>>, before |-> NoSim]

\* lines 53-55 and 118-120 share the shape [vec, sum, dist]
InitNormalization(tp, pose) ==
    LET vec == Sub3(tp, SubSeq(pose, 1, 3))
    IN [initvec2tgt |-> vec,
        suminitdist |-> Max(Sum3(<<np_abs(vec[1]), np_abs(vec[2]), np_abs(vec[3])>>), DistFloor),
        initdist2tgt |-> Max(mag(vec), DistFloor)]

\* lines 118-120: reset's recomputation for a new target
ResetNormalization(tp, pose) ==
    LET vec == Sub3(tp, SubSeq(pose, 1, 3))
    IN [initvec2tgt |-> vec,
        suminitdist |-> Max(Sum3(<<smoothabs(vec[1]), smoothabs(vec[2]), smoothabs(vec[3])>>),
                            DistFloor),
        initdist2tgt |-> mag(vec)]

\* Task(init_pose, None, None, runtime, target_pos, None).  Line 53 subtracts
\* the ARGUMENTS target_pos and init_pose[:3]: with either of them None the
\* statement raises TypeError and no Task exists; lines 29-51 have run by then.
Construct(init_pose, tp) ==
    /\ pc = "new"
    /\ sim' = PhysicsSim(init_pose, None, None)
    /\ target_pos' = (IF tp # None THEN tp ELSE DefaultTarget)
    /\ target_vel' = Zeros3
    /\ IF tp = None \/ init_pose = None
       THEN /\ pc' = "error"
            /\ UNCHANGED <<initvec2tgt, suminitdist, initdist2tgt>>
       ELSE LET n == InitNormalization(tp, init_pose)
            IN /\ pc' = "ready"
               /\ initvec2tgt' = n.initvec2tgt
               /\ suminitdist' = n.suminitdist
               /\ initdist2tgt' = n.initdist2tgt
    /\ ret' = [NoRet EXCEPT !.op = "init", !.args = <<init_pose, tp>>]
    /\ UNCHANGED <<distpunishment, highanglepunishment>>

RotorSpeedsNoFloor(actions) == [i \in 1..4 |-> actions[1] + actions[i + 1]]

\* line 102: np.maximum(actions[0] + actions[1:5], np.ones(4))
RotorSpeeds(actions) == [i \in 1..4 |-> Max(actions[1] + actions[i + 1], 1)]

RECURSIVE SumRewards(_, _)
SumRewards(R, n) == IF n = 0 THEN 0 ELSE SumRewards(R, n - 1) + R[n].reward

StepRewardLastTimesRepeat(R) == action_repeat * R[action_repeat].reward

\* lines 99, 105: reward = 0; reward += self.get_reward() after each advance
StepReward(R) == SumRewards(R, action_repeat)

StepDoneAny(dones) == \E i \in 1..action_repeat : dones[i]

\* lines 104, 110: done is assigned on every advance; the last value is returned
StepDone(dones) == dones[action_repeat]

RECURSIVE ConcatPoses(_, _)
ConcatPoses(S, n) ==
    IF n = 0 THEN <<>> ELSE ConcatPoses(S, n - 1) \o S[n].pose \o S[n].angular_v

RECURSIVE ConcatLast(_, _)
ConcatLast(S, n) ==
    IF n = 0 THEN <<>>
    ELSE ConcatLast(S, n - 1) \o S[action_repeat].pose \o S[action_repeat].angular_v

NextStateAliased(S) == ConcatLast(S, action_repeat)

\* lines 100, 106, 109: pose_all += [sim.pose, sim.angular_v]; np.concatenate
NextState(S) == ConcatPoses(S, action_repeat)

\* step(actions): lines 97-110
step(actions) ==
    /\ pc = "ready"
    /\ sim.time + action_repeat <= MaxTime
    /\ \E outs \in [1..action_repeat -> 1..NOutcomes],
          dones \in [1..action_repeat -> BOOLEAN] :
         LET rotor_speeds == RotorSpeeds(actions)
             SimAfter[i \in 0..action_repeat] ==
                 IF i = 0 THEN sim
                 ELSE next_timestep(SimAfter[i - 1], rotor_speeds, outs[i], dones[i])
         IN \E S \in {SimAfter} :
            \E R \in {[i \in 1..action_repeat |-> RewardAt(target_pos, suminitdist, S[i])]} :
              /\ sim' = S[action_repeat]
              /\ distpunishment' = R[action_repeat].distpunishment
              /\ highanglepunishment' = R[action_repeat].highanglepunishment
              /\ ret' = [NoRet EXCEPT
                           !.op = "step", !.args = actions,
                           !.state = NextState(S),
                           !.reward = StepReward(R),
                           !.done = StepDone(dones),
                           !.log = [i \in 1..action_repeat |->
                                      [rotor_speeds |-> rotor_speeds,
                                       pose |-> S[i].pose,
                                       angular_v |-> S[i].angular_v,
                                       done |-> dones[i],
                                       reward |-> R[i].reward]]]
    /\ UNCHANGED taskvars

RECURSIVE Repeat(_, _)
Repeat(block, n) == IF n = 0 THEN <<>> ELSE Repeat(block, n - 1) \o block

ResetStateStale(before, after) == Repeat(before.pose \o before.angular_v, action_repeat)

\* line 115: np.concatenate([sim.pose, sim.angular_v] * action_repeat), after sim.reset()
ResetState(before, after) == Repeat(after.pose \o after.angular_v, action_repeat)

ResetTargetPosDefault(new_tgt_pos) ==
    IF new_tgt_pos # None THEN new_tgt_pos ELSE DefaultTarget

\* lines 116-117: self.target_pos is overwritten only by a target that is not None
ResetTargetPos(new_tgt_pos) ==
    IF new_tgt_pos # None THEN new_tgt_pos ELSE target_pos

\* reset(new_tgt_pos): lines 112-121
reset(new_tgt_pos) ==
    /\ pc = "ready"
    /\ LET after == sim_reset(sim)
       IN /\ sim' = after
          /\ ret' = [NoRet EXCEPT !.op = "reset", !.args = new_tgt_pos,
                                  !.state = ResetState(sim, after), !.before = sim]
          /\ target_pos' = ResetTargetPos(new_tgt_pos)
          /\ IF new_tgt_pos # None
             THEN LET n == ResetNormalization(new_tgt_pos, after.pose)
                  IN /\ initvec2tgt' = n.initvec2tgt
                     /\ suminitdist' = n.suminitdist
                     /\ initdist2tgt' = n.initdist2tgt
             ELSE UNCHANGED <<initvec2tgt, suminitdist, initdist2tgt>>
    /\ UNCHANGED <<pc, target_vel, distpunishment, highanglepunishment>>

\* get_reward(): lines 90-92
get_reward ==
    /\ pc = "ready"
    /\ LET r == RewardAt(target_pos, suminitdist, sim)
       IN /\ distpunishment' = r.distpunishment
          /\ highanglepunishment' = r.highanglepunishment
          /\ ret' = [NoRet EXCEPT !.op = "get_reward", !.reward = r.reward]
    /\ UNCHANGED <<sim, taskvars>>

\* get_max_reward(): lines 94-95
get_max_reward ==
    /\ pc = "ready"
    /\ LET r == calc_reward(target_pos, suminitdist, BigTime, target_pos, Zeros3, Zeros3)
       IN /\ distpunishment' = r.distpunishment
          /\ highanglepunishment' = r.highanglepunishment
          /\ ret' = [NoRet EXCEPT !.op = "get_max_reward",
                                  !.reward = action_repeat * r.reward]
    /\ UNCHANGED <<sim, taskvars>>

Init ==
    /\ pc = "new"
    /\ sim = NoSim
    /\ target_pos = None
    /\ target_vel = None
    /\ initvec2tgt = None
    /\ suminitdist = 0
    /\ initdist2tgt = 0
    /\ distpunishment = 0
    /\ highanglepunishment = 0
    /\ ret = NoRet

Next ==
    \/ \E ip \in InitPoses \cup {None}, tp \in Targets \cup {None} : Construct(ip, tp)
    \/ \E a \in Actions : step(a)
    \/ \E t \in Targets \cup {None} : reset(t)
    \/ get_reward
    \/ get_max_reward

Spec == Init /\ [][Next]_vars

---------------------------------------------------------------------------
(* calc_reward as a function of its arguments: a constructed Task, on which *)
(* calc_reward is called with arguments drawn from the sets below.          *)

Angles == {0, Pi, Pi + 100000, 2 * Pi, 3 * Pi + 100000, 0 - 22 * Scale}

\* (time, position, velocities)
Contexts == {<<0, <<0, 0, 10 * PScale>>, Zeros3>>,
             <<7, <<2 * PScale, 0 - 1 * PScale, 3 * PScale>>, <<0, 300, 0 - 200>>>>}

\* task.calc_reward(time, position, angles, velocities): lines 57-88
calc_reward_call(time, position, angles, velocities) ==
    /\ pc = "ready"
    /\ LET r == calc_reward(target_pos, suminitdist, time, position, angles, velocities)
       IN /\ distpunishment' = r.distpunishment
          /\ highanglepunishment' = r.highanglepunishment
          /\ ret' = [NoRet EXCEPT !.op = "calc_reward",
                                  !.args = <<time, position, angles, velocities>>,
                                  !.reward = r.reward]
    /\ UNCHANGED <<sim, taskvars>>

\* the states right after a successful Task(init_pose, target_pos=tp)
InitReward ==
    \E ip \in InitPoses, tp \in Targets :
      LET n == InitNormalization(tp, ip)
      IN /\ pc = "ready"
         /\ sim = PhysicsSim(ip, None, None)
         /\ target_pos = tp
         /\ target_vel = Zeros3
         /\ initvec2tgt = n.initvec2tgt
         /\ suminitdist = n.suminitdist
         /\ initdist2tgt = n.initdist2tgt
         /\ distpunishment = 0
         /\ highanglepunishment = 0
         /\ ret = [NoRet EXCEPT !.op = "init", !.args = <<ip, tp>>]

NextReward ==
    \/ \E c \in Contexts, phi \in Angles, theta \in Angles :
         calc_reward_call(c[1], c[2], <<phi, theta, 0>>, c[3])
    \/ \E a \in Actions : step(a)

SpecReward == InitReward /\ [][NextReward]_vars

---------------------------------------------------------------------------
(* Properties                                                              *)

StepReturned == ret.op = "step"

\* the reward calc_reward gives for a pose, computed from the pose alone
PoseReward(pose) ==
    calc_reward(target_pos, suminitdist, 0, SubSeq(pose, 1, 3), SubSeq(pose, 4, 6),
                Zeros3).reward

\* block i (1-based) of an observation vector
Block(state, i) == SubSeq(state, 9 * (i - 1) + 1, 9 * i)

(* C1 (as claimed): the done value step returns is true whenever the       *)
(* simulator reported done on at least one of the 3 advances of that call, *)
(* also when it did so on the first or second advance only.                *)
C1_DoneAccumulated ==
    StepReturned => ((\E i \in 1..action_repeat : ret.log[i].done) => ret.done)

(* C1 (amended): the done value step returns is the done value the         *)
(* simulator reported on the last of the 3 advances.                       *)
C1_DoneIsLastAdvance ==
    StepReturned => (ret.done = ret.log[action_repeat].done)

C1_Witness ==
    /\ StepReturned
    /\ ret.log[1].done
    /\ ~ret.log[action_repeat].done
    /\ ~ret.done

(* C2: constructing a Task with an initial pose and no target position     *)
(* succeeds, with target_pos the default [0, 0, 10], initvec2tgt the       *)
(* default target minus the initial position, and suminitdist and          *)
(* initdist2tgt derived from it.                                           *)
C2_DefaultTargetConstructs ==
    (ret.op = "init" /\ ret.args[1] # None /\ ret.args[2] = None) =>
        LET vec == Sub3(DefaultTarget, SubSeq(ret.args[1], 1, 3))
        IN /\ pc = "ready"
           /\ target_pos = DefaultTarget
           /\ initvec2tgt = vec
           /\ suminitdist = Max(Abs(vec[1]) + Abs(vec[2]) + Abs(vec[3]), DistFloor)
           /\ initdist2tgt = Max(mag(vec), DistFloor)

(* C3 (as claimed): every reward calc_reward returns lies strictly between *)
(* -1 and 1, and the total_reward of a step strictly between -3 and 3.     *)
C3_RewardOpenInterval ==
    /\ ret.op = "calc_reward" => (0 - Scale < ret.reward /\ ret.reward < Scale)
    /\ StepReturned => (0 - 3 * Scale < ret.reward /\ ret.reward < 3 * Scale)

(* C3 (amended): every reward calc_reward returns lies in [-1, 1): it is   *)
(* exactly -1.0 when the angle punishment is so large (from about 21.06)   *)
(* that the float64 tanh saturates, and strictly above -1 otherwise; the   *)
(* total_reward of a step lies in [-3, 3).                                 *)
C3_RewardHalfOpenInterval ==
    /\ ret.op = "calc_reward" =>
         /\ 0 - Scale <= ret.reward
         /\ ret.reward < Scale
         /\ (ret.reward = 0 - Scale) <=> (highanglepunishment >= 2 * Scale + TanhSat)
    /\ StepReturned => (0 - 3 * Scale <= ret.reward /\ ret.reward < 3 * Scale)

C3_Witness ==
    /\ ret.op = "calc_reward"
    /\ ret.reward = 0 - Scale
    /\ ret.args[3][2] = 0

(* C4: a step advances the simulator exactly 3 times with the same rotor   *)
(* speeds, and its total_reward is r1 + r2 + r3, r_i being the reward of   *)
(* the pose the simulator held right after advance i.                      *)
C4_RewardIsSumOfSubsteps ==
    StepReturned =>
        /\ Len(ret.log) = 3
        /\ \A i \in 1..3 : ret.log[i].rotor_speeds = ret.log[1].rotor_speeds
        /\ ret.reward = PoseReward(ret.log[1].pose) + PoseReward(ret.log[2].pose)
                        + PoseReward(ret.log[3].pose)

C4_Witness ==
    /\ StepReturned
    /\ PoseReward(ret.log[1].pose) # PoseReward(ret.log[3].pose)
    /\ ret.reward # 3 * PoseReward(ret.log[3].pose)
    /\ ret.reward = PoseReward(ret.log[1].pose) + PoseReward(ret.log[2].pose)
                    + PoseReward(ret.log[3].pose)

(* C5: the state step returns has length 27 = state_size; block i of 9 is  *)
(* the 6-element pose followed by the 3-element angular velocity that the  *)
(* simulator held right after advance i, oldest first.                     *)
C5_StateIsHistory ==
    StepReturned =>
        /\ Len(ret.state) = 27
        /\ Len(ret.state) = state_size
        /\ \A i \in 1..3 :
             /\ SubSeq(Block(ret.state, i), 1, 6) = ret.log[i].pose
             /\ SubSeq(Block(ret.state, i), 7, 9) = ret.log[i].angular_v

C5_Witness ==
    /\ StepReturned
    /\ ret.log[1].pose # ret.log[3].pose
    /\ ret.log[2].pose # ret.log[3].pose
    /\ Block(ret.state, 1) = ret.log[1].pose \o ret.log[1].angular_v
    /\ Block(ret.state, 1) # Block(ret.state, 3)

(* C6: on every advance of step(a) the simulator receives rotor speeds     *)
(* max(a[0] + a[i+1], 1.0), i = 0..3, each at least 1.0; a is not clamped  *)
(* to action_low/action_high first.                                        *)
C6_RotorFloor ==
    StepReturned =>
        \A i \in 1..3 : \A j \in 1..4 :
            /\ ret.log[i].rotor_speeds[j] =
                  (IF ret.args[1] + ret.args[j + 1] >= 1
                   THEN ret.args[1] + ret.args[j + 1] ELSE 1)
            /\ ret.log[i].rotor_speeds[j] >= 1

C6_Witness ==
    /\ StepReturned
    /\ ret.args = <<0, -5, -5, -5, -5>>
    /\ ret.log[1].rotor_speeds = <<1, 1, 1, 1>>

C6_WitnessUnclamped ==
    /\ StepReturned
    /\ ret.args[1] > action_high[1]
    /\ ret.log[1].rotor_speeds[4] = ret.args[1] + ret.args[5]

(* C7: reset, with or without a new target, returns a state of length 27   *)
(* whose three blocks each are the simulator's initial pose followed by    *)
(* its initial angular velocity, which is what the simulator holds after   *)
(* the reset, whatever it held before.                                     *)
C7_ResetStateIsInitial ==
    ret.op = "reset" =>
        /\ Len(ret.state) = 27
        /\ sim.pose = sim.init_pose
        /\ sim.angular_v = sim.init_angle_velocities
        /\ \A i \in 1..3 :
             Block(ret.state, i) = sim.init_pose \o sim.init_angle_velocities

C7_Witness ==
    /\ ret.op = "reset"
    /\ ret.args # None
    /\ ret.before.pose # sim.init_pose
    /\ ret.before.angular_v # sim.init_angle_velocities
    /\ Block(ret.state, 3) = sim.init_pose \o sim.init_angle_velocities

\* the representative of angle a in (-pi, pi]
RECURSIVE FullyReduced(_)
FullyReduced(a) ==
    IF a > Pi THEN FullyReduced(a - 2 * Pi)
    ELSE IF a <= 0 - Pi THEN FullyReduced(a + 2 * Pi)
    ELSE a

\* what the last calc_reward call would have given for roll phi, pitch theta
RewardWith(phi, theta) ==
    calc_reward(target_pos, suminitdist, ret.args[1], ret.args[2],
                <<phi, theta, ret.args[3][3]>>, ret.args[4])

\* an angle after one 2*pi correction
C8_Once(a) == IF a <= Pi THEN a ELSE a - 2 * Pi

C8_WrapCommon(phi, theta) ==
    /\ highanglepunishment = Abs(C8_Once(theta)) + Abs(C8_Once(phi))
    /\ ret.reward = Tanh(2 * Scale - highanglepunishment)
    /\ (Pi < theta /\ theta <= 2 * Pi) =>
          ret.reward = RewardWith(phi, theta - 2 * Pi).reward
    /\ (Pi < phi /\ phi <= 2 * Pi) =>
          ret.reward = RewardWith(phi - 2 * Pi, theta).reward
    /\ theta > 3 * Pi =>
          /\ C8_Once(theta) > Pi
          /\ highanglepunishment # RewardWith(phi, FullyReduced(theta)).highanglepunishment
    /\ phi > 3 * Pi =>
          /\ C8_Once(phi) > Pi
          /\ highanglepunishment # RewardWith(FullyReduced(phi), theta).highanglepunishment

(* C8 (as claimed): roll and pitch get a single 2*pi wrap: an angle a with *)
(* pi < a <= 2*pi gives the reward of a - 2*pi, angles <= pi are used      *)
(* unchanged, and an angle above 3*pi is reduced by one 2*pi only, so its  *)
(* reward differs from the reward of the fully reduced angle.              *)
C8_SingleWrap ==
    ret.op = "calc_reward" =>
        LET phi == ret.args[3][1]
            theta == ret.args[3][2]
        IN /\ C8_WrapCommon(phi, theta)
           /\ theta > 3 * Pi =>
                 ret.reward # RewardWith(phi, FullyReduced(theta)).reward
           /\ phi > 3 * Pi =>
                 ret.reward # RewardWith(FullyReduced(phi), theta).reward

(* C8 (amended): as claimed, except that for an angle above 3*pi it is the *)
(* angle punishment that always differs from that of the fully reduced     *)
(* angle; the reward differs too unless the punishment is so large that    *)
(* tanh saturates and the reward is exactly -1.0.                          *)
C8_SingleWrapUnlessSaturated ==
    ret.op = "calc_reward" =>
        LET phi == ret.args[3][1]
            theta == ret.args[3][2]
        IN /\ C8_WrapCommon(phi, theta)
           /\ theta > 3 * Pi =>
                 \/ ret.reward # RewardWith(phi, FullyReduced(theta)).reward
                 \/ ret.reward = 0 - Scale
           /\ phi > 3 * Pi =>
                 \/ ret.reward # RewardWith(FullyReduced(phi), theta).reward
                 \/ ret.reward = 0 - Scale

C8_Witness ==
    /\ ret.op = "calc_reward"
    /\ ret.args[3][1] = 0
    /\ ret.args[3][2] = 3 * Pi + 100000
    /\ highanglepunishment = Pi + 100000
    /\ ret.reward # RewardWith(0, 100000 - Pi).reward
    /\ RewardWith(0, Pi + 100000).reward = RewardWith(0, 100000 - Pi).reward

(* C9: in every state after construction, whatever steps and resets (with  *)
(* or without a new target) followed, suminitdist >= 5.0 and               *)
(* initdist2tgt >= 5.0.                                                    *)
C9_FloorKept ==
    pc = "ready" => (suminitdist >= DistFloor /\ initdist2tgt >= DistFloor)

(* C10: step, get_reward, get_max_reward and reset() without a target      *)
(* leave target_pos, initvec2tgt, suminitdist and initdist2tgt unchanged;  *)
(* get_reward and get_max_reward also leave the simulator (pose, velocity, *)
(* time) unchanged.                                                        *)
C10_TargetFrame ==
    [][/\ (\/ ret'.op \in {"step", "get_reward", "get_max_reward"}
           \/ (ret'.op = "reset" /\ ret'.args = None))
          => UNCHANGED <<target_pos, initvec2tgt, suminitdist, initdist2tgt>>
       /\ ret'.op \in {"get_reward", "get_max_reward"}
          => (sim'.pose = sim.pose /\ sim'.v = sim.v /\ sim'.time = sim.time)]_vars

C10_Witness ==
    /\ ret.op = "reset"
    /\ ret.args = None
    /\ target_pos # DefaultTarget
    /\ ret.before.pose # sim.init_pose

====
